---- MODULE Spec2Model ----
(***************************************************************************)
(* Moltchain autonomous agent: the deployment gate (canDeploy), the        *)
(* engagement scorer (calculateEngagementScore / analyzeEngagement), the   *)
(* archetype selection (selectContractType), the deployment ledger         *)
(* (memory/deployments.ts) with the Sunset Processor (sunset/automation.ts)*)
(* and the daemon loop (daemon/agent.ts) with the process around it        *)
(* (config/env.ts, the signal handlers of main), and shouldSunset and      *)
(* isDuplicate of the skill scripts.                                       *)
(*                                                                         *)
(* Time is in milliseconds, as Date.now() in the code.  Balances are in    *)
(* gwei (the code compares wei; every threshold is a whole number of gwei).*)
(* Real numbers (days since deployment, normalised metrics, the score      *)
(* before rounding) are exact rationals [n, d] with d > 0.                 *)
(***************************************************************************)
EXTENDS Integers, Sequences, FiniteSets, TLC

VARIABLES
    now,                 \* wall clock, Date.now()
    pc,                  \* position of the daemon in startDaemon's loop
    file,                \* content of memory/deployments.json: the ledger
    isRunning,           \* agent.ts:64
    lastStatusUpdate,    \* agent.ts:65
    lastEngagementCheck, \* agent.ts:66
    iterationCount,      \* agent.ts:67
    nextAddress,         \* the next contract address the chain hands out
    lastDeployedAt,      \* when the latest deploy call succeeded (observation)
    signals,             \* how many actionable narratives the LLM has reported
    iter,                \* what the latest runIteration did (observation)
    check,               \* what the latest runEngagementCheck did (observation)
    statusPost,          \* what the latest postPeriodicStatus posted (observation)
    firedAt,             \* when each periodic action last fired, and the time before (observation)
    secrets,             \* the required variables of process.env that hold a value
    startup,             \* the external calls startDaemon made before the loop (observation)
    exit,                \* how the process ended: exit status and cause
    gateIn,              \* inputs of the gate check under test
    gateOut,             \* result of the gate check under test
    scoreIn,             \* inputs of the engagement scorer under test
    scoreOut,            \* result of the engagement scorer under test
    scorePrev,           \* the score before one count of scoreIn grew (observation)
    selectIn,            \* the narrative selectContractType is tried on
    selectOut,           \* result of selectContractType under test
    ledger,              \* content of the ledger file under test
    ledgerOp,            \* the latest operation on the ledger under test (observation)
    shouldIn,            \* inputs of shouldSunset under test
    shouldOut            \* result of shouldSunset under test

vars == <<now, pc, file, isRunning, lastStatusUpdate, lastEngagementCheck,
          iterationCount, nextAddress, lastDeployedAt, signals, iter, check,
          statusPost, firedAt, secrets, startup, exit, gateIn, gateOut, scoreIn,
          scoreOut, scorePrev, selectIn, selectOut, ledger, ledgerOp, shouldIn,
          shouldOut>>

daemonVars == <<now, pc, file, isRunning, lastStatusUpdate, lastEngagementCheck,
                iterationCount, nextAddress, lastDeployedAt, signals, iter, check,
                statusPost, firedAt, secrets, startup, exit>>

processVars == <<secrets, startup, exit>>

gateVars == <<gateIn, gateOut>>

scoreVars == <<scoreIn, scoreOut, scorePrev>>

selectVars == <<selectIn, selectOut>>

ledgerVars == <<ledger, ledgerOp>>

shouldVars == <<shouldIn, shouldOut>>

----------------------------------------------------------------------------
(* Time constants *)

MINUTE_MS == 60000

HOUR_MS == 60 * 60 * 1000

DAY_MS == 1000 * 60 * 60 * 24

SCAN_INTERVAL_MS == 10 * 60 * 1000

ENGAGEMENT_CHECK_INTERVAL_MS == 30 * 60 * 1000

\* a status interval of half an hour
STATUS_UPDATE_INTERVAL_MS_half == 30 * 60 * 1000

STATUS_UPDATE_INTERVAL_MS == 60 * 60 * 1000

\* parseEther('0.005') in gwei
MIN_DEPLOY_BALANCE == 5000000

\* parseEther('0.00001') in gwei
MIN_CONTRACT_BALANCE == 10000

\* an absent optional field of a record
UNDEFINED == "undefined"

\* null / undefined results are the empty sequence, a value v is <<v>>
NULL == <<>>

Some(v) == <<v>>

----------------------------------------------------------------------------
(* Bounds of the model *)

\* the daemon is observed for this many loop passes
MaxIterations == 6

\* the LLM reports at most this many actionable narratives while the daemon is observed
MaxSignals == 2

\* largest raw count the scorer is tried on
MaxCount == 5

\* a narrative selectContractType is tried on has at most this many words
MaxWords == 2

\* the ledger under test grows to at most this many records
MaxRecords == 3

\* a daemon to which no actionable narrative was reported is observed for this
\* many loop passes
MaxQuietIterations == 13

\* the daemon starts at this time (three days after the epoch of the model)
StartTime == 3 * DAY_MS

----------------------------------------------------------------------------
(* Exact rational arithmetic for the code's floating-point numbers *)

RECURSIVE GCD(_, _)
GCD(a, b) == IF b = 0 THEN a ELSE GCD(b, a % b)

Abs(x) == IF x < 0 THEN 0 - x ELSE x

\* the rational n/d (d # 0) in lowest terms with a positive denominator
Rat(n, d) ==
    LET g == GCD(Abs(n), Abs(d))
        s == IF d < 0 THEN 0 - 1 ELSE 1
    IN  [n |-> s * (n \div g), d |-> s * (d \div g)]

RatInt(k) == [n |-> k, d |-> 1]

RatLess(x, y) == x.n * y.d < y.n * x.d

RatMax(x, y) == IF RatLess(x, y) THEN y ELSE x

RatMin(x, y) == IF RatLess(y, x) THEN y ELSE x

RatMul(x, y) ==
    LET g1 == GCD(Abs(x.n), y.d)
        g2 == GCD(Abs(y.n), x.d)
    IN  Rat((x.n \div g1) * (y.n \div g2), (x.d \div g2) * (y.d \div g1))

RatDiv(x, y) == RatMul(x, Rat(y.d, y.n))

RatAdd(x, y) ==
    LET g == GCD(x.d, y.d)
    IN  Rat(x.n * (y.d \div g) + y.n * (x.d \div g), (x.d \div g) * y.d)

\* Math.floor
Floor(x) == x.n \div x.d

\* Math.round: the nearest integer, a tie going up (towards +Infinity).  The
\* arguments are exact rationals where the source has doubles; on the counts and
\* ages used below no weighted sum is an exact tie, and the double result
\* rounds to the same integer as the exact one.
Round(x) == (2 * x.n + x.d) \div (2 * x.d)

----------------------------------------------------------------------------
(* The deployment ledger, memory/deployments.ts *)

\* a DeploymentRecord: status is optional (UNDEFINED when absent); sunset is the
\* truthiness of the optional, deprecated flag (FALSE when absent)
DeploymentRecord(address, name, timestamp, reason, status) ==
    [address |-> address, name |-> name, timestamp |-> timestamp,
     reason |-> reason, status |-> status, sunset |-> FALSE]

EmptyMemory == [version |-> 1, deployments |-> <<>>]

\* JSON.stringify of a record: a JSON object holds only the keys whose value is
\* not undefined
stringifyRecord(d) ==
    [address |-> d.address, name |-> d.name, timestamp |-> d.timestamp, reason |-> d.reason]
        @@ (IF d.status = UNDEFINED THEN <<>> ELSE [status |-> d.status])
        @@ (IF d.sunset THEN [sunset |-> TRUE] ELSE <<>>)

\* JSON.parse of a record: a key the object lacks reads as undefined
parseRecord(o) ==
    [address |-> o.address, name |-> o.name, timestamp |-> o.timestamp, reason |-> o.reason,
     status |-> IF "status" \in DOMAIN o THEN o.status ELSE UNDEFINED,
     sunset |-> IF "sunset" \in DOMAIN o THEN o.sunset ELSE FALSE]

JSONstringify(memory) ==
    [version |-> memory.version,
     deployments |-> [i \in 1..Len(memory.deployments) |->
                         stringifyRecord(memory.deployments[i])]]

JSONparse(content) ==
    [version |-> content.version,
     deployments |-> [i \in 1..Len(content.deployments) |->
                         parseRecord(content.deployments[i])]]

\* the backing file: state is "missing", "corrupt" (its text does not parse) or
\* "ok"; content is the JSON text, written here as the JSON value of memory
MemoryFile(state, memory) == [state |-> state, content |-> JSONstringify(memory)]

\* loadMemory parsing whatever the file holds unless the file is missing
loadMemory_noCatch(f) == IF f.state = "missing" THEN EmptyMemory ELSE JSONparse(f.content)

loadMemory(f) == IF f.state = "ok" THEN JSONparse(f.content) ELSE EmptyMemory

\* saveMemory raising the schema version on every save
saveMemory_newVersion(memory) == MemoryFile("ok", [memory EXCEPT !.version = @ + 1])

\* lastUpdated is not modelled: nothing reads it
saveMemory(memory) == MemoryFile("ok", memory)

\* saveDeployment replacing the record that has the same address
saveDeployment_upsert(f, deployment) ==
    LET memory == loadMemory(f)
        others == SelectSeq(memory.deployments,
                            LAMBDA d : d.address # deployment.address)
    IN  saveMemory([memory EXCEPT !.deployments = <<deployment>> \o others])

\* saveDeployment pushing the record to the end of the list
saveDeployment_push(f, deployment) ==
    LET memory == loadMemory(f)
    IN  saveMemory([memory EXCEPT !.deployments = @ \o <<deployment>>])

\* loadMemory, unshift, saveMemory: the new content of the file
saveDeployment(f, deployment) ==
    LET memory == loadMemory(f)
    IN  saveMemory([memory EXCEPT !.deployments = <<deployment>> \o @])

\* Array.prototype.findIndex on address, 1-based; 0 stands for -1
RECURSIVE findIndexFrom(_, _, _)
findIndexFrom(deployments, address, i) ==
    IF i > Len(deployments) THEN 0
    ELSE IF deployments[i].address = address THEN i
    ELSE findIndexFrom(deployments, address, i + 1)

findIndex(deployments, address) == findIndexFrom(deployments, address, 1)

\* Array.prototype.filter, keeping order
RECURSIVE filterActive(_)
filterActive(deployments) ==
    IF deployments = <<>> THEN <<>>
    ELSE IF Head(deployments).status = "active"
         THEN <<Head(deployments)>> \o filterActive(Tail(deployments))
         ELSE filterActive(Tail(deployments))

\* sunsetDeployment: the new content of the file
sunsetDeployment(f, address) ==
    LET memory == loadMemory(f)
        i == findIndex(memory.deployments, address)
    IN  IF i # 0
        THEN saveMemory([memory EXCEPT !.deployments[i].sunset = TRUE])
        ELSE f

getDeploymentStats(f) ==
    LET memory == loadMemory(f)
        idx == DOMAIN memory.deployments
    IN  [total  |-> Len(memory.deployments),
         active |-> Cardinality({i \in idx : ~memory.deployments[i].sunset}),
         sunset |-> Cardinality({i \in idx : memory.deployments[i].sunset})]

getSunsetStats(f) ==
    LET memory == loadMemory(f)
    IN  [total |-> Cardinality({i \in DOMAIN memory.deployments :
                                   memory.deployments[i].status = "sunset"})]

----------------------------------------------------------------------------
(* The gate, signals/detector.ts canDeploy *)

hasSufficientBalance(balance, minBalance) == balance >= minBalance

\* canDeploy with the rate limit tested before the funds
canDeploy_rateFirst(balance, f, t) ==
    LET hasFunds == hasSufficientBalance(balance, MIN_DEPLOY_BALANCE)
        memory == loadMemory(f)
    IN  IF memory.deployments # <<>>
           /\ memory.deployments[1].timestamp > t - 60 * 60 * 1000
        THEN [allowed |-> FALSE,
              reason |-> <<"Rate limited: Last deployment was",
                           Floor(Rat(t - memory.deployments[1].timestamp, 60000)),
                           "minutes ago (wait 60 min)">>]
        ELSE IF ~hasFunds
        THEN [allowed |-> FALSE,
              reason |-> <<"Insufficient wallet balance (need at least 0.005 ETH)">>]
        ELSE [allowed |-> TRUE, reason |-> <<"Ready to deploy">>]

\* canDeploy with the head record compared by >= instead of >
canDeploy_inclusive(balance, f, t) ==
    LET hasFunds == hasSufficientBalance(balance, MIN_DEPLOY_BALANCE)
        memory == loadMemory(f)
    IN  IF ~hasFunds
        THEN [allowed |-> FALSE,
              reason |-> <<"Insufficient wallet balance (need at least 0.005 ETH)">>]
        ELSE IF memory.deployments # <<>>
                /\ memory.deployments[1].timestamp >= t - 60 * 60 * 1000
        THEN [allowed |-> FALSE,
              reason |-> <<"Rate limited: Last deployment was",
                           Floor(Rat(t - memory.deployments[1].timestamp, 60000)),
                           "minutes ago (wait 60 min)">>]
        ELSE [allowed |-> TRUE, reason |-> <<"Ready to deploy">>]

canDeploy(balance, f, t) ==
    LET hasFunds == hasSufficientBalance(balance, MIN_DEPLOY_BALANCE)
        memory == loadMemory(f)
    IN  IF ~hasFunds
        THEN [allowed |-> FALSE,
              reason |-> <<"Insufficient wallet balance (need at least 0.005 ETH)">>]
        ELSE IF memory.deployments # <<>>
                /\ memory.deployments[1].timestamp > t - 60 * 60 * 1000
        THEN [allowed |-> FALSE,
              reason |-> <<"Rate limited: Last deployment was",
                           Floor(Rat(t - memory.deployments[1].timestamp, 60000)),
                           "minutes ago (wait 60 min)">>]
        ELSE [allowed |-> TRUE, reason |-> <<"Ready to deploy">>]

----------------------------------------------------------------------------
(* The engagement scorer, engagement/tracker.ts *)

\* calculateEngagementScore without the Math.min clamps
calculateEngagementScore_unclamped(transferCount, uniqueHolders, socialMentions, daysSinceDeployment) ==
    LET days == RatMax(daysSinceDeployment, RatInt(1))
        normalizedTransfers == RatDiv(RatInt(transferCount), RatMul(RatInt(10), days))
        normalizedHolders == RatDiv(RatInt(uniqueHolders), RatMul(RatInt(5), days))
        normalizedSocial == RatDiv(RatInt(socialMentions), RatMul(RatInt(3), days))
        score ==
            RatMul(RatAdd(RatAdd(RatMul(normalizedTransfers, Rat(4, 10)),
                                 RatMul(normalizedHolders, Rat(3, 10))),
                          RatMul(normalizedSocial, Rat(3, 10))),
                   RatInt(100))
    IN  Round(score)

\* calculateEngagementScore with the transfer ratio upside down (expected / actual)
calculateEngagementScore_inverted(transferCount, uniqueHolders, socialMentions, daysSinceDeployment) ==
    LET days == RatMax(daysSinceDeployment, RatInt(1))
        normalizedTransfers ==
            IF transferCount = 0 THEN RatInt(1)
            ELSE RatMin(RatDiv(RatMul(RatInt(10), days), RatInt(transferCount)), RatInt(1))
        normalizedHolders ==
            RatMin(RatDiv(RatInt(uniqueHolders), RatMul(RatInt(5), days)), RatInt(1))
        normalizedSocial ==
            RatMin(RatDiv(RatInt(socialMentions), RatMul(RatInt(3), days)), RatInt(1))
        score ==
            RatMul(RatAdd(RatAdd(RatMul(normalizedTransfers, Rat(4, 10)),
                                 RatMul(normalizedHolders, Rat(3, 10))),
                          RatMul(normalizedSocial, Rat(3, 10))),
                   RatInt(100))
    IN  Round(score)

\* calculateEngagementScore with a social weight of 0.2
calculateEngagementScore_weights(transferCount, uniqueHolders, socialMentions, daysSinceDeployment) ==
    LET days == RatMax(daysSinceDeployment, RatInt(1))
        normalizedTransfers ==
            RatMin(RatDiv(RatInt(transferCount), RatMul(RatInt(10), days)), RatInt(1))
        normalizedHolders ==
            RatMin(RatDiv(RatInt(uniqueHolders), RatMul(RatInt(5), days)), RatInt(1))
        normalizedSocial ==
            RatMin(RatDiv(RatInt(socialMentions), RatMul(RatInt(3), days)), RatInt(1))
        score ==
            RatMul(RatAdd(RatAdd(RatMul(normalizedTransfers, Rat(4, 10)),
                                 RatMul(normalizedHolders, Rat(3, 10))),
                          RatMul(normalizedSocial, Rat(2, 10))),
                   RatInt(100))
    IN  Round(score)

calculateEngagementScore(transferCount, uniqueHolders, socialMentions, daysSinceDeployment) ==
    LET transferWeight == Rat(4, 10)
        holderWeight == Rat(3, 10)
        socialWeight == Rat(3, 10)
        days == RatMax(daysSinceDeployment, RatInt(1))
        normalizedTransfers ==
            RatMin(RatDiv(RatInt(transferCount), RatMul(RatInt(10), days)), RatInt(1))
        normalizedHolders ==
            RatMin(RatDiv(RatInt(uniqueHolders), RatMul(RatInt(5), days)), RatInt(1))
        normalizedSocial ==
            RatMin(RatDiv(RatInt(socialMentions), RatMul(RatInt(3), days)), RatInt(1))
        score ==
            RatMul(RatAdd(RatAdd(RatMul(normalizedTransfers, transferWeight),
                                 RatMul(normalizedHolders, holderWeight)),
                          RatMul(normalizedSocial, socialWeight)),
                   RatInt(100))
    IN  Round(score)

\* recommend with the thresholds compared by > instead of >=
recommend_strict(engagementScore) ==
    IF engagementScore > 50 THEN "promote"
    ELSE IF engagementScore > 20 THEN "keep"
    ELSE "sunset"

\* the recommendation by score alone, tracker.ts:201-210
recommend(engagementScore) ==
    IF engagementScore >= 50 THEN "promote"
    ELSE IF engagementScore >= 20 THEN "keep"
    ELSE "sunset"

\* analyzeEngagement without the grace period
gracePeriod_none(daysSinceDeployment, recommendation) == recommendation

\* the 24 hour grace period, tracker.ts:213-215
gracePeriod(daysSinceDeployment, recommendation) ==
    IF RatLess(daysSinceDeployment, RatInt(1)) /\ recommendation = "sunset"
    THEN "keep"
    ELSE recommendation

\* analyzeEngagement for a deployment whose fetched counts are m, at time t
analyzeEngagement(deployment, m, t) ==
    LET daysSinceDeployment == Rat(t - deployment.timestamp, 1000 * 60 * 60 * 24)
        engagementScore ==
            calculateEngagementScore(m.transferCount, m.uniqueHolders,
                                     m.socialMentions, daysSinceDeployment)
    IN  [address |-> deployment.address,
         name |-> deployment.name,
         transferCount |-> m.transferCount,
         uniqueHolders |-> m.uniqueHolders,
         engagementScore |-> engagementScore,
         isPerforming |-> engagementScore >= 20,
         recommendation |-> gracePeriod(daysSinceDeployment, recommend(engagementScore)),
         checkedAt |-> t]

----------------------------------------------------------------------------
(* The Sunset Processor, sunset/automation.ts *)

\* analyzeAllDeployments: M[i] are the counts fetched for the i-th active record
analyzeAllDeployments(f, M, t) ==
    LET memory == loadMemory(f)
        activeDeployments == filterActive(memory.deployments)
    IN  [i \in 1..Len(activeDeployments) |-> analyzeEngagement(activeDeployments[i], M[i], t)]

IsSunsetCandidate(m) == m.recommendation = "sunset"

getSunsetCandidates(f, M, t) == SelectSeq(analyzeAllDeployments(f, M, t), IsSunsetCandidate)

\* the template string of automation.ts:44
sunsetReason(metrics) ==
    <<"Low engagement:", metrics.transferCount, "transfers,",
      metrics.uniqueHolders, "holders, score:", metrics.engagementScore, "/100">>

\* processSunset undoing the ledger change when the announcement failed
processSunset_rollback(f, deployment, metrics, cast, t) ==
    LET reason == sunsetReason(metrics)
        memory == loadMemory(f)
        deploymentIndex == findIndex(memory.deployments, deployment.address)
    IN  [file |-> IF deploymentIndex # 0 /\ cast
                  THEN saveMemory([memory EXCEPT
                          !.deployments[deploymentIndex].status = "sunset",
                          !.deployments[deploymentIndex].reason = reason])
                  ELSE f,
         result |-> [address |-> deployment.address, name |-> deployment.name,
                     reason |-> reason, sunsetAt |-> t,
                     announced |-> cast, cast |-> cast]]

\* a processSunset that retires the record through its sunset flag, as
\* sunsetDeployment does
processSunset_flagOnly(f, deployment, metrics, cast, t) ==
    LET reason == sunsetReason(metrics)
        memory == loadMemory(f)
        deploymentIndex == findIndex(memory.deployments, deployment.address)
    IN  [file |-> IF deploymentIndex # 0
                  THEN saveMemory([memory EXCEPT
                          !.deployments[deploymentIndex].sunset = TRUE,
                          !.deployments[deploymentIndex].reason = reason])
                  ELSE f,
         result |-> [address |-> deployment.address, name |-> deployment.name,
                     reason |-> reason, sunsetAt |-> t,
                     announced |-> TRUE, cast |-> cast]]

\* a processSunset that moves the record it retires to the head of the ledger
processSunset_unshift(f, deployment, metrics, cast, t) ==
    LET reason == sunsetReason(metrics)
        memory == loadMemory(f)
        deploymentIndex == findIndex(memory.deployments, deployment.address)
        retired == [memory.deployments[deploymentIndex] EXCEPT
                        !.status = "sunset", !.reason = reason]
        others == [k \in 1..(Len(memory.deployments) - 1) |->
                      IF k < deploymentIndex THEN memory.deployments[k]
                      ELSE memory.deployments[k + 1]]
    IN  [file |-> IF deploymentIndex # 0
                  THEN saveMemory([memory EXCEPT !.deployments = <<retired>> \o others])
                  ELSE f,
         result |-> [address |-> deployment.address, name |-> deployment.name,
                     reason |-> reason, sunsetAt |-> t,
                     announced |-> TRUE, cast |-> cast]]

\* processSunset: the new file and the SunsetResult; cast is whether postCast
\* returned success (it never throws, farcaster.ts:90-133, so announced is set)
processSunset(f, deployment, metrics, cast, t) ==
    LET reason == sunsetReason(metrics)
        memory == loadMemory(f)
        deploymentIndex == findIndex(memory.deployments, deployment.address)
    IN  [file |-> IF deploymentIndex # 0
                  THEN saveMemory([memory EXCEPT
                          !.deployments[deploymentIndex].status = "sunset",
                          !.deployments[deploymentIndex].reason = reason])
                  ELSE f,
         result |-> [address |-> deployment.address, name |-> deployment.name,
                     reason |-> reason, sunsetAt |-> t,
                     announced |-> TRUE, cast |-> cast]]

\* the for loop of runSunsetAutomation, automation.ts:99-106
RECURSIVE sunsetLoop(_, _, _, _, _, _)
sunsetLoop(f, memory, candidates, results, cast, t) ==
    IF candidates = <<>> THEN [file |-> f, results |-> results]
    ELSE LET metrics == Head(candidates)
             i == findIndex(memory.deployments, metrics.address)
         IN  IF i = 0
             THEN sunsetLoop(f, memory, Tail(candidates), results, cast, t)
             ELSE LET r == processSunset(f, memory.deployments[i], metrics, cast, t)
                  IN  sunsetLoop(r.file, memory, Tail(candidates),
                                 Append(results, r.result), cast, t)

\* runSunsetAutomation: the new file and the SunsetResults, with the metrics
\* getSunsetCandidates computed (analysed) and kept (candidates)
runSunsetAutomation(f, M, cast, t) ==
    LET candidates == getSunsetCandidates(f, M, t)
        seen == [analysed |-> analyzeAllDeployments(f, M, t), candidates |-> candidates]
    IN  IF candidates = <<>> THEN seen @@ [file |-> f, results |-> <<>>]
        ELSE seen @@ sunsetLoop(f, loadMemory(f), candidates, <<>>, cast, t)

----------------------------------------------------------------------------
(* Signal detection, signals/detector.ts, and archetype selection, agent.ts *)

\* a text is the sequence of its characters
UpperCase ==
    <<"A", "B", "C", "D", "E", "F", "G", "H", "I", "J", "K", "L", "M",
      "N", "O", "P", "Q", "R", "S", "T", "U", "V", "W", "X", "Y", "Z">>

LowerCase ==
    <<"a", "b", "c", "d", "e", "f", "g", "h", "i", "j", "k", "l", "m",
      "n", "o", "p", "q", "r", "s", "t", "u", "v", "w", "x", "y", "z">>

\* String.prototype.toLowerCase
toLowerCase(text) ==
    [i \in 1..Len(text) |->
        IF \E k \in 1..26 : UpperCase[k] = text[i]
        THEN LowerCase[CHOOSE k \in 1..26 : UpperCase[k] = text[i]]
        ELSE text[i]]

\* String.prototype.includes: keyword occurs somewhere in text
includes(text, keyword) ==
    \E i \in 0..(Len(text) - Len(keyword)) :
        SubSeq(text, i + 1, i + Len(keyword)) = keyword

\* normalize of isDuplicate: lower case, then every character outside a-z removed
normalize(text) ==
    SelectSeq(toLowerCase(text), LAMBDA c : \E k \in 1..26 : LowerCase[k] = c)

\* isDuplicate of the narrative-detection script: the normalised topic contains
\* the normalised name of a recent deployment, or is contained in it
isDuplicate(topic, recentDeployments) ==
    \E i \in 1..Len(recentDeployments) :
        \/ includes(normalize(topic), normalize(recentDeployments[i]))
        \/ includes(normalize(recentDeployments[i]), normalize(topic))

\* the keywords of agent.ts:82-92
KeywordVote == <<"v", "o", "t", "e">>

KeywordDecide == <<"d", "e", "c", "i", "d", "e">>

KeywordPoll == <<"p", "o", "l", "l">>

KeywordRegistry == <<"r", "e", "g", "i", "s", "t", "r", "y">>

KeywordList == <<"l", "i", "s", "t">>

KeywordCatalog == <<"c", "a", "t", "a", "l", "o", "g">>

KeywordNft == <<"n", "f", "t">>

KeywordCollection == <<"c", "o", "l", "l", "e", "c", "t", "i", "o", "n">>

KeywordBadge == <<"b", "a", "d", "g", "e">>

\* selectContractType testing the registry keywords before the vote keywords
selectContractType_registryFirst(narrative) ==
    LET lowerNarrative == toLowerCase(narrative)
    IN  IF includes(lowerNarrative, KeywordRegistry) \/ includes(lowerNarrative, KeywordList)
           \/ includes(lowerNarrative, KeywordCatalog)
        THEN "registry"
        ELSE IF includes(lowerNarrative, KeywordVote) \/ includes(lowerNarrative, KeywordDecide)
                \/ includes(lowerNarrative, KeywordPoll)
        THEN "vote"
        ELSE IF includes(lowerNarrative, KeywordNft) \/ includes(lowerNarrative, KeywordCollection)
                \/ includes(lowerNarrative, KeywordBadge)
        THEN "erc1155"
        ELSE "erc20"

selectContractType(narrative) ==
    LET lowerNarrative == toLowerCase(narrative)
    IN  IF includes(lowerNarrative, KeywordVote) \/ includes(lowerNarrative, KeywordDecide)
           \/ includes(lowerNarrative, KeywordPoll)
        THEN "vote"
        ELSE IF includes(lowerNarrative, KeywordRegistry) \/ includes(lowerNarrative, KeywordList)
                \/ includes(lowerNarrative, KeywordCatalog)
        THEN "registry"
        ELSE IF includes(lowerNarrative, KeywordNft) \/ includes(lowerNarrative, KeywordCollection)
                \/ includes(lowerNarrative, KeywordBadge)
        THEN "erc1155"
        ELSE "erc20"

\* analyzeSignalsWithLLM trusting the reply's shouldDeploy whatever the strength
analyzeSignalsWithLLM_anyStrength(analysis) ==
    IF analysis = NULL THEN NULL
    ELSE Some([narrative |-> analysis[1].narrative,
               strength |-> analysis[1].strength,
               suggestedToken |-> analysis[1].suggestedToken,
               shouldDeploy |-> analysis[1].shouldDeploy])

\* analysis: NULL when the reply holds no JSON or the call fails, else the parsed reply
analyzeSignalsWithLLM(analysis) ==
    IF analysis = NULL THEN NULL
    ELSE Some([narrative |-> analysis[1].narrative,
               strength |-> analysis[1].strength,
               suggestedToken |-> analysis[1].suggestedToken,
               shouldDeploy |-> analysis[1].shouldDeploy /\ analysis[1].strength >= 7])

\* allCasts: how many casts the two feeds returned
detectSignals(allCasts, analysis) ==
    IF allCasts = 0 THEN NULL ELSE analyzeSignalsWithLLM(analysis)

----------------------------------------------------------------------------
(* The environment, config/env.ts *)

\* the variables env reads with getRequired, env.ts:72-106
RequiredSecrets == {"GROQ_API_KEY", "PRIVATE_KEY", "NEYNAR_API_KEY"}

\* a getRequired that falls back to the empty string
getRequired_orEmpty(present, key) == [threw |-> FALSE]

\* getRequired, env.ts:35-46: present is the set of variables holding a
\* non-empty value
getRequired(present, key) == [threw |-> key \notin present]

\* the module-level constant env, env.ts:72-106
loadEnv(present) ==
    [threw |-> \E key \in RequiredSecrets : getRequired(present, key).threw]

\* validateEnv, env.ts:114-136
validateEnv(present) ==
    LET required == {"GROQ_API_KEY", "PRIVATE_KEY", "NEYNAR_API_KEY"}
        missing == {key \in required : key \notin present}
    IN  [threw |-> missing # {}, missing |-> missing]

----------------------------------------------------------------------------
(* The two deployers *)

\* a deployContract that writes the record before it waits for the receipt
deployContract_saveFirst(f, name, reason, balance, confirmed, address, t) ==
    IF ~hasSufficientBalance(balance, MIN_CONTRACT_BALANCE)
    THEN [threw |-> TRUE, file |-> f, address |-> NULL]
    ELSE [threw |-> ~confirmed,
          file |-> saveDeployment(f, DeploymentRecord(address, name, t, reason, UNDEFINED)),
          address |-> IF confirmed THEN Some(address) ELSE NULL]

\* deployer/deployer.ts deployContract: confirmed is whether the transaction was
\* sent and mined with a contract address; address is the address the chain gave
deployContract(f, name, reason, balance, confirmed, address, t) ==
    IF ~hasSufficientBalance(balance, MIN_CONTRACT_BALANCE) \/ ~confirmed
    THEN [threw |-> TRUE, file |-> f, address |-> NULL]
    ELSE [threw |-> FALSE,
          file |-> saveDeployment(f, DeploymentRecord(address, name, t, reason, UNDEFINED)),
          address |-> Some(address)]

\* clanker/deployer.ts deployClankerToken: confirmed is whether the Neynar API
\* answered with response.ok
deployClankerToken(f, name, reason, confirmed, address, t) ==
    IF ~confirmed
    THEN [threw |-> TRUE, file |-> f, address |-> NULL]
    ELSE [threw |-> FALSE, file |-> f, address |-> Some(address)]

----------------------------------------------------------------------------
(* What the world outside the program can answer *)

Balances == {0, MIN_CONTRACT_BALANCE, MIN_DEPLOY_BALANCE - 1, MIN_DEPLOY_BALANCE}

Names == {"Alpha"}

\* narratives the LLM reports: "", "Vote", "list", "NFT"
Narratives == {<<>>, <<"V", "o", "t", "e">>, <<"l", "i", "s", "t">>, <<"N", "F", "T">>}

Strengths == {6, 7}

LLMReplies ==
    {NULL} \cup
    {Some(r) : r \in [narrative : Narratives, strength : Strengths,
                      suggestedToken : {NULL} \cup {Some(n) : n \in Names},
                      shouldDeploy : BOOLEAN]}

\* how long the external deploy call takes
CallDurations == {0, 90000}

\* transfer, holder and mention counts the fetchers can return
MetricSamples ==
    {[transferCount |-> 0, uniqueHolders |-> 0, socialMentions |-> 0],
     [transferCount |-> 6, uniqueHolders |-> 3, socialMentions |-> 1],
     [transferCount |-> 1000, uniqueHolders |-> 1000, socialMentions |-> 1000]}

\* ledgers an earlier run can have left in the file
InitialFiles ==
    LET old == DeploymentRecord(1, "Alpha", StartTime - 30 * HOUR_MS, <<"signal">>, "active")
        mid == DeploymentRecord(2, "Alpha Token", StartTime - 2 * HOUR_MS, <<"signal">>, "active")
        new == DeploymentRecord(2, "Beta", StartTime - 20 * MINUTE_MS, <<"signal">>, UNDEFINED)
    IN  {MemoryFile("missing", EmptyMemory),
         MemoryFile("ok", [version |-> 1, deployments |-> <<old>>]),
         MemoryFile("ok", [version |-> 1, deployments |-> <<mid, old>>]),
         MemoryFile("ok", [version |-> 1, deployments |-> <<new, old>>])}

----------------------------------------------------------------------------
(* The daemon, daemon/agent.ts *)

\* the observation of a runIteration in which nothing was done yet
IterStart ==
    [gate |-> NULL, fetched |-> FALSE, signal |-> NULL, preAnnounced |-> FALSE,
     contractType |-> UNDEFINED, deployCalled |-> FALSE, deployCallAt |-> NULL,
     deployed |-> NULL, saved |-> FALSE, announced |-> FALSE, caught |-> FALSE,
     prevDeployedAt |-> NULL]

\* startDaemon has made no external call
NoStartupCalls == [balanceQueried |-> FALSE, posted |-> FALSE]

CheckIdle ==
    [fired |-> FALSE, failed |-> FALSE, analysed |-> <<>>, candidates |-> <<>>,
     results |-> <<>>]

InitDaemon ==
    /\ now = StartTime
    /\ pc = "startDaemon"
    /\ file \in InitialFiles
    /\ isRunning = FALSE
    /\ lastStatusUpdate = 0
    /\ lastEngagementCheck = 0
    /\ iterationCount = 0
    /\ nextAddress = 3
    /\ lastDeployedAt = NULL
    /\ signals = 0
    /\ iter = IterStart
    /\ check = CheckIdle
    /\ statusPost = NULL
    /\ firedAt = [scan |-> <<>>, engagement |-> <<>>, status |-> <<>>]
    /\ secrets = RequiredSecrets
    /\ startup = NoStartupCalls
    /\ exit = NULL

\* the last two firing times after a firing at time t
Fired(times, t) == IF Len(times) < 2 THEN Append(times, t) ELSE <<times[2], t>>

\* the end of the process: its exit status, what ended it and where the daemon was
ExitAt(code, by, at) == Some([code |-> code, by |-> by, at |-> at])

Exit(code, by) == ExitAt(code, by, pc)

\* the static imports of agent.ts evaluate config/env.ts before main() runs:
\* an Error thrown there is uncaught and ends the process with status 1
LoadModules ==
    /\ pc = "load"
    /\ IF loadEnv(secrets).threw
       THEN /\ pc' = "exited"
            /\ exit' = Exit(1, "uncaught")
       ELSE /\ pc' = "startDaemon"
            /\ exit' = exit
    /\ UNCHANGED <<now, file, isRunning, lastStatusUpdate, lastEngagementCheck,
                   iterationCount, nextAddress, lastDeployedAt, signals, iter, check,
                   statusPost, firedAt, secrets, startup>>
    /\ UNCHANGED <<gateVars, scoreVars, selectVars, ledgerVars, shouldVars>>

\* startDaemon up to the main loop, agent.ts:307-343; balanceRead is whether
\* getBalance answered.  An Error thrown here rejects the promise of
\* startDaemon, which main() hands to console.error (agent.ts:416-418): the
\* process then ends with status 0
StartDaemon ==
    /\ pc = "startDaemon"
    /\ \E balanceRead \in BOOLEAN :
         IF validateEnv(secrets).threw \/ ~balanceRead
         THEN /\ pc' = "exited"
              /\ exit' = Exit(0, "caught")
              /\ startup' = [startup EXCEPT
                                !.balanceQueried = ~validateEnv(secrets).threw]
              /\ UNCHANGED <<isRunning, lastStatusUpdate, lastEngagementCheck>>
         ELSE /\ startup' = [balanceQueried |-> TRUE, posted |-> TRUE]
              /\ isRunning' = TRUE
              /\ lastStatusUpdate' = now
              /\ lastEngagementCheck' = now - ENGAGEMENT_CHECK_INTERVAL_MS + 60000
              /\ pc' = "runIteration"
              /\ exit' = exit
    /\ UNCHANGED <<now, file, iterationCount, nextAddress, lastDeployedAt,
                   signals, iter, check, statusPost, firedAt, secrets>>
    /\ UNCHANGED <<gateVars, scoreVars, selectVars, ledgerVars, shouldVars>>

\* step 5 of runIteration: the switch on the contract type, agent.ts:150-208
deploy(contractType, f, name, reason, balance, confirmed, address, t) ==
    IF contractType = "erc20"
    THEN deployClankerToken(f, name, reason, confirmed, address, t)
    ELSE deployContract(f, name, reason, balance, confirmed, address, t)

\* steps 3 to 6 of runIteration, agent.ts:132-217, for an actionable signal;
\* start is the observation of the iteration so far
DeploySignal(signal, start) ==
    \E balance \in Balances, confirmed \in BOOLEAN, d \in CallDurations :
        LET contractType == selectContractType(signal.narrative)
            contractName == IF signal.suggestedToken = NULL
                            THEN "Moltchain Contract"
                            ELSE signal.suggestedToken[1]
            r == deploy(contractType, file, contractName, <<"signal">>,
                        balance, confirmed, nextAddress, now + d)
            called == [start EXCEPT !.preAnnounced = TRUE,
                                    !.contractType = contractType,
                                    !.deployCalled = TRUE,
                                    !.deployCallAt = Some(now),
                                    !.prevDeployedAt = lastDeployedAt]
        IN  /\ now' = now + d
            /\ file' = r.file
            /\ IF r.threw
               THEN /\ iter' = [called EXCEPT !.caught = TRUE]
                    /\ UNCHANGED <<nextAddress, lastDeployedAt>>
               ELSE /\ iter' = [called EXCEPT !.deployed = r.address,
                                              !.saved = (r.file # file),
                                              !.announced = TRUE]
                    /\ nextAddress' = nextAddress + 1
                    /\ lastDeployedAt' = Some(now + d)

\* step 2 of runIteration and what follows it, agent.ts:124-217
ScanSignals(start) ==
    \E allCasts \in {0, 2}, analysis \in LLMReplies :
        LET signal == detectSignals(allCasts, analysis)
            seen == IF signal = NULL THEN NULL
                    ELSE Some([strength |-> signal[1].strength,
                               shouldDeploy |-> signal[1].shouldDeploy])
            scanned == [start EXCEPT !.fetched = TRUE, !.signal = seen]
        IN  IF signal = NULL \/ ~signal[1].shouldDeploy
            THEN /\ iter' = scanned
                 /\ UNCHANGED <<now, file, nextAddress, lastDeployedAt, signals>>
            ELSE /\ signals < MaxSignals
                 /\ signals' = signals + 1
                 /\ DeploySignal(signal[1], scanned)

\* runIteration, agent.ts:107-222
RunIteration ==
    /\ pc = "runIteration"
    /\ pc' = "runEngagementCheck"
    /\ iterationCount' = iterationCount + 1
    /\ firedAt' = [firedAt EXCEPT !.scan = Fired(@, now)]
    /\ \E balance \in Balances :
         LET gate == canDeploy(balance, file, now)
             start == [IterStart EXCEPT !.gate = Some(gate)]
         IN  IF ~gate.allowed
             THEN /\ iter' = start
                  /\ UNCHANGED <<now, file, nextAddress, lastDeployedAt, signals>>
             ELSE ScanSignals(start)
    /\ UNCHANGED <<isRunning, lastStatusUpdate, lastEngagementCheck, check, statusPost>>
    /\ UNCHANGED <<processVars, gateVars, scoreVars, selectVars, ledgerVars, shouldVars>>

\* runEngagementCheck, agent.ts:227-264.  The fetchers and the casts never
\* throw; writeFileSync of saveMemory can: written is whether it succeeded.
\* When it throws in the first processSunset the file stays as it was and the
\* catch of agent.ts:261 ends the check
RunEngagementCheck ==
    /\ pc = "runEngagementCheck"
    /\ pc' = "postPeriodicStatus"
    /\ IF now - lastEngagementCheck < ENGAGEMENT_CHECK_INTERVAL_MS
       THEN /\ check' = CheckIdle
            /\ UNCHANGED <<file, lastEngagementCheck, firedAt>>
       ELSE /\ lastEngagementCheck' = now
            /\ firedAt' = [firedAt EXCEPT !.engagement = Fired(@, now)]
            /\ \E M \in [1..Len(filterActive(loadMemory(file).deployments)) -> MetricSamples] :
                 \/ \E cast \in BOOLEAN :
                      LET r == runSunsetAutomation(file, M, cast, now)
                      IN  /\ file' = r.file
                          /\ check' = [fired |-> TRUE, failed |-> FALSE,
                                       analysed |-> r.analysed,
                                       candidates |-> r.candidates,
                                       results |-> r.results]
                 \/ LET analysed == analyzeAllDeployments(file, M, now)
                        written == FALSE
                    IN  /\ \E i \in DOMAIN analysed : IsSunsetCandidate(analysed[i])
                        /\ file' = file
                        /\ check' = [fired |-> TRUE, failed |-> ~written,
                                     analysed |-> analysed,
                                     candidates |-> SelectSeq(analysed, IsSunsetCandidate),
                                     results |-> <<>>]
    /\ UNCHANGED <<now, isRunning, lastStatusUpdate, iterationCount, nextAddress,
                   lastDeployedAt, signals, iter, statusPost>>
    /\ UNCHANGED <<processVars, gateVars, scoreVars, selectVars, ledgerVars, shouldVars>>

\* postPeriodicStatus, agent.ts:269-297; balanceRead is whether getBalance answered
PostPeriodicStatus ==
    /\ pc = "postPeriodicStatus"
    /\ pc' = "sleep"
    /\ IF now - lastStatusUpdate < STATUS_UPDATE_INTERVAL_MS
       THEN UNCHANGED <<lastStatusUpdate, statusPost, firedAt>>
       ELSE /\ lastStatusUpdate' = now
            /\ firedAt' = [firedAt EXCEPT !.status = Fired(@, now)]
            /\ \E balanceRead \in BOOLEAN :
                 statusPost' =
                     IF balanceRead
                     THEN Some([total |-> getDeploymentStats(file).total,
                                active |-> getDeploymentStats(file).active,
                                sunset |-> getSunsetStats(file).total,
                                iterations |-> iterationCount])
                     ELSE NULL
    /\ UNCHANGED <<now, file, isRunning, lastEngagementCheck, iterationCount,
                   nextAddress, lastDeployedAt, signals, iter, check>>
    /\ UNCHANGED <<processVars, gateVars, scoreVars, selectVars, ledgerVars, shouldVars>>

\* the end of a loop pass: sleep(SCAN_INTERVAL_MS), then the loop test, agent.ts:346-353
Sleep ==
    /\ pc = "sleep"
    /\ \/ iterationCount < MaxIterations
       \/ signals = 0 /\ iterationCount < MaxQuietIterations
    /\ now' = now + SCAN_INTERVAL_MS
    /\ pc' = IF isRunning THEN "runIteration" ELSE "stopped"
    /\ UNCHANGED <<file, isRunning, lastStatusUpdate, lastEngagementCheck,
                   iterationCount, nextAddress, lastDeployedAt, signals, iter, check,
                   statusPost, firedAt>>
    /\ UNCHANGED <<processVars, gateVars, scoreVars, selectVars, ledgerVars, shouldVars>>

Next ==
    \/ StartDaemon
    \/ RunIteration
    \/ RunEngagementCheck
    \/ PostPeriodicStatus
    \/ Sleep

----------------------------------------------------------------------------
(* The process around the daemon: module load, termination signals, agent.ts:378-422 *)

\* stopDaemon, agent.ts:359-363
stopDaemon == FALSE

\* the sets of required variables the process can be started with
SecretSets ==
    {RequiredSecrets, {}} \cup {RequiredSecrets \ {key} : key \in RequiredSecrets}

InitProcess ==
    /\ now = StartTime
    /\ pc = "load"
    /\ file \in InitialFiles
    /\ isRunning = FALSE
    /\ lastStatusUpdate = 0
    /\ lastEngagementCheck = 0
    /\ iterationCount = 0
    /\ nextAddress = 3
    /\ lastDeployedAt = NULL
    /\ signals = 0
    /\ iter = IterStart
    /\ check = CheckIdle
    /\ statusPost = NULL
    /\ firedAt = [scan |-> <<>>, engagement |-> <<>>, status |-> <<>>]
    /\ secrets \in SecretSets
    /\ startup = NoStartupCalls
    /\ exit = NULL

\* the SIGINT / SIGTERM handlers, agent.ts:386-395: stopDaemon(), then
\* process.exit(0).  The handler runs whenever the daemon awaits: here between
\* two of the functions the loop calls, or during the sleep
TerminationSignal ==
    /\ pc \in {"startDaemon", "runIteration", "runEngagementCheck",
               "postPeriodicStatus", "sleep"}
    /\ isRunning' = stopDaemon
    /\ pc' = "exited"
    /\ exit' = Exit(0, "signal")
    /\ UNCHANGED <<now, file, lastStatusUpdate, lastEngagementCheck, iterationCount,
                   nextAddress, lastDeployedAt, signals, iter, check, statusPost,
                   firedAt, secrets, startup>>
    /\ UNCHANGED <<gateVars, scoreVars, selectVars, ledgerVars, shouldVars>>

\* the same handlers running while runIteration awaits the deploy call,
\* agent.ts:154 / 173 / 184 / 199: the transaction is out (mined is whether the
\* chain created the contract), the process ends before deployContract reaches
\* saveDeployment (deployer.ts:180) and before announceDeployment
SignalDuringDeploy ==
    /\ pc = "runIteration"
    /\ isRunning
    /\ signals < MaxSignals
    /\ \E balance \in Balances, allCasts \in {0, 2}, analysis \in LLMReplies,
          mined \in BOOLEAN :
         LET gate == canDeploy(balance, file, now)
             signal == detectSignals(allCasts, analysis)
         IN  /\ gate.allowed
             /\ signal # NULL
             /\ signal[1].shouldDeploy
             /\ iter' = [IterStart EXCEPT
                           !.gate = Some(gate),
                           !.fetched = TRUE,
                           !.signal = Some([strength |-> signal[1].strength,
                                            shouldDeploy |-> TRUE]),
                           !.preAnnounced = TRUE,
                           !.contractType = selectContractType(signal[1].narrative),
                           !.deployCalled = TRUE,
                           !.deployCallAt = Some(now),
                           !.prevDeployedAt = lastDeployedAt]
             /\ nextAddress' = IF mined THEN nextAddress + 1 ELSE nextAddress
    /\ iterationCount' = iterationCount + 1
    /\ signals' = signals + 1
    /\ firedAt' = [firedAt EXCEPT !.scan = Fired(@, now)]
    /\ isRunning' = stopDaemon
    /\ pc' = "exited"
    /\ exit' = ExitAt(0, "signal", "deploy")
    /\ UNCHANGED <<now, file, lastStatusUpdate, lastEngagementCheck, lastDeployedAt,
                   check, statusPost, secrets, startup>>
    /\ UNCHANGED <<gateVars, scoreVars, selectVars, ledgerVars, shouldVars>>

NextProcess ==
    \/ LoadModules
    \/ StartDaemon
    \/ RunIteration
    \/ RunEngagementCheck
    \/ PostPeriodicStatus
    \/ Sleep
    \/ TerminationSignal
    \/ SignalDuringDeploy

----------------------------------------------------------------------------
(* The gate on its own: canDeploy applied to a balance, a ledger and a clock *)

\* how long before the clock reading the head record was deployed
GateElapsed ==
    {0 - 90000, 0, 59999, 60000, 30 * MINUTE_MS, 30 * MINUTE_MS + 59999,
     HOUR_MS - 1, HOUR_MS, HOUR_MS + 1, 90 * MINUTE_MS}

\* what lies behind the head record: nothing, a record deployed a minute before
\* the clock reading (out of order), or one deployed two hours before it
GateTails == {"none", "recent", "old"}

GateBalances == {0, MIN_DEPLOY_BALANCE - 1, MIN_DEPLOY_BALANCE, MIN_DEPLOY_BALANCE + 1}

GateLedger(elapsed, tail, t) ==
    LET head == DeploymentRecord(2, "Beta", t - elapsed, <<"signal">>, UNDEFINED)
        rest == IF tail = "none" THEN <<>>
                ELSE IF tail = "recent"
                THEN <<DeploymentRecord(1, "Alpha", t - MINUTE_MS, <<"signal">>, UNDEFINED)>>
                ELSE <<DeploymentRecord(1, "Alpha", t - 2 * HOUR_MS, <<"signal">>, UNDEFINED)>>
    IN  MemoryFile("ok", [version |-> 1, deployments |-> <<head>> \o rest])

GateInputs ==
    {[balance |-> b, file |-> f, now |-> StartTime] :
        b \in GateBalances,
        f \in {MemoryFile("missing", EmptyMemory),
               MemoryFile("ok", EmptyMemory)} \cup
              {GateLedger(e, tail, StartTime) : e \in GateElapsed, tail \in GateTails}}

InitGate ==
    /\ gateIn \in GateInputs
    /\ gateOut = NULL

GateIdle ==
    /\ gateIn = NULL
    /\ gateOut = NULL

\* one call of canDeploy
CallCanDeploy ==
    /\ gateOut = NULL
    /\ gateOut' = Some(canDeploy(gateIn.balance, gateIn.file, gateIn.now))
    /\ UNCHANGED <<gateIn, daemonVars, scoreVars, selectVars, ledgerVars, shouldVars>>

NextGate == CallCanDeploy

----------------------------------------------------------------------------
(* The scorer on its own: analyzeEngagement applied to one record and the   *)
(* counts fetched for it                                                   *)

Counts == (0..MaxCount) \cup {10, 15, 30, 1000}

\* ages of the record: deployed in the future, just now, ..., days ago
ScoreAges ==
    {0 - HOUR_MS, 0, 12 * HOUR_MS, DAY_MS - 1, DAY_MS, 25 * HOUR_MS,
     36 * HOUR_MS, 2 * DAY_MS, 3 * DAY_MS}

ScoreInputs ==
    {[deployment |-> DeploymentRecord(1, "Alpha", StartTime - age, <<"signal">>, "active"),
      m |-> [transferCount |-> t, uniqueHolders |-> h, socialMentions |-> s],
      now |-> StartTime] :
        age \in ScoreAges, t \in Counts, h \in Counts, s \in Counts}

InitScore ==
    /\ scoreIn \in {i \in ScoreInputs : i.m.transferCount + i.m.uniqueHolders
                                          + i.m.socialMentions <= MaxCount}
    /\ scoreOut = NULL
    /\ scorePrev = NULL

ScoreIdle ==
    /\ scoreIn = NULL
    /\ scoreOut = NULL
    /\ scorePrev = NULL

\* one call of analyzeEngagement
CallAnalyzeEngagement ==
    /\ scoreOut = NULL
    /\ scoreOut' = Some(analyzeEngagement(scoreIn.deployment, scoreIn.m, scoreIn.now))
    /\ UNCHANGED <<scoreIn, scorePrev, daemonVars, gateVars, selectVars, ledgerVars, shouldVars>>

\* the same record analysed again after one of its counts has grown to the
\* next larger count tried
Reanalyze(field) ==
    /\ scoreOut # NULL
    /\ \E c \in Counts :
         /\ c > scoreIn.m[field]
         /\ \A b \in Counts : b > scoreIn.m[field] => c <= b
         /\ scoreIn' = [scoreIn EXCEPT !.m[field] = c]
         /\ scoreOut' = Some(analyzeEngagement(scoreIn'.deployment, scoreIn'.m, scoreIn'.now))
    /\ scorePrev' = Some(scoreOut[1].engagementScore)
    /\ UNCHANGED <<daemonVars, gateVars, selectVars, ledgerVars, shouldVars>>

MoreTransfers == Reanalyze("transferCount")

MoreHolders == Reanalyze("uniqueHolders")

MoreMentions == Reanalyze("socialMentions")

NextScore ==
    \/ CallAnalyzeEngagement
    \/ MoreTransfers
    \/ MoreHolders
    \/ MoreMentions

----------------------------------------------------------------------------
(* Archetype selection on its own: selectContractType applied to a narrative *)

\* words a narrative is made of, each with the archetype its keyword stands for:
\* "Voters", "DECIDE", "polling", "Registry", "playLIST", "Catalog", "NFTs",
\* "collection", "Badge", "meme", "Moon"
Words ==
    {[text |-> <<"V", "o", "t", "e", "r", "s">>, family |-> "vote"],
     [text |-> <<"D", "E", "C", "I", "D", "E">>, family |-> "vote"],
     [text |-> <<"p", "o", "l", "l", "i", "n", "g">>, family |-> "vote"],
     [text |-> <<"R", "e", "g", "i", "s", "t", "r", "y">>, family |-> "registry"],
     [text |-> <<"p", "l", "a", "y", "L", "I", "S", "T">>, family |-> "registry"],
     [text |-> <<"C", "a", "t", "a", "l", "o", "g">>, family |-> "registry"],
     [text |-> <<"N", "F", "T", "s">>, family |-> "erc1155"],
     [text |-> <<"c", "o", "l", "l", "e", "c", "t", "i", "o", "n">>, family |-> "erc1155"],
     [text |-> <<"B", "a", "d", "g", "e">>, family |-> "erc1155"],
     [text |-> <<"m", "e", "m", "e">>, family |-> "none"],
     [text |-> <<"M", "o", "o", "n">>, family |-> "none"]}

\* the words joined by single spaces
RECURSIVE joinWords(_)
joinWords(words) ==
    IF words = <<>> THEN <<>>
    ELSE IF Len(words) = 1 THEN words[1].text
    ELSE words[1].text \o <<" ">> \o joinWords(Tail(words))

SelectInputs ==
    {[words |-> w, narrative |-> joinWords(w)] :
        w \in UNION {[1..n -> Words] : n \in 0..MaxWords}}

InitSelect ==
    /\ selectIn \in SelectInputs
    /\ selectOut = NULL

SelectIdle ==
    /\ selectIn = NULL
    /\ selectOut = NULL

\* one call of selectContractType
CallSelectContractType ==
    /\ selectOut = NULL
    /\ selectOut' = Some(selectContractType(selectIn.narrative))
    /\ UNCHANGED <<selectIn, daemonVars, gateVars, scoreVars, ledgerVars, shouldVars>>

NextSelect == CallSelectContractType

----------------------------------------------------------------------------
(* The ledger on its own: any sequence of the operations that write the file *)

LedgerAddresses == {1, 2}

\* records saveDeployment is called with: deployContract leaves status out, an
\* earlier version of the file can hold 'active'
LedgerRecords ==
    {DeploymentRecord(a, IF a = 1 THEN "Alpha" ELSE "Beta", StartTime - 30 * HOUR_MS,
                      <<"signal">>, st) :
        a \in LedgerAddresses, st \in {UNDEFINED, "active"}}

\* counts the fetchers return for a record of the ledger under test
LedgerMetrics ==
    {[transferCount |-> 1, uniqueHolders |-> 1, socialMentions |-> 0]}

\* the file before the first operation: missing, damaged so that its text no
\* longer parses, an empty ledger, or a ledger with one active record
LedgerFiles ==
    LET old == DeploymentRecord(1, "Alpha", StartTime - 30 * HOUR_MS, <<"signal">>, "active")
    IN  {MemoryFile("missing", EmptyMemory),
         MemoryFile("corrupt", [version |-> 1, deployments |-> <<old>>]),
         MemoryFile("ok", EmptyMemory),
         MemoryFile("ok", [version |-> 1, deployments |-> <<old>>])}

\* the observation of an operation: its name, the address it was about, the
\* state of the file before it, the record saved and the SunsetResult returned;
\* for processSunset also the counts the fetchers returned, for
\* runSunsetAutomation the addresses of the sunset candidates and its results
LedgerOp(op, address, beforeState, record, result) ==
    [op |-> op, address |-> address, beforeState |-> beforeState,
     record |-> record, result |-> result, fetched |-> NULL,
     candidates |-> <<>>, results |-> <<>>]

InitLedger ==
    /\ ledger \in LedgerFiles
    /\ ledgerOp = LedgerOp("none", 0, "none", NULL, NULL)

LedgerIdle ==
    /\ ledger = NULL
    /\ ledgerOp = NULL

SaveDeployment ==
    /\ Len(loadMemory(ledger).deployments) < MaxRecords
    /\ \E d \in LedgerRecords :
         /\ ledger' = saveDeployment(ledger, d)
         /\ ledgerOp' = LedgerOp("saveDeployment", d.address, ledger.state, Some(d), NULL)
    /\ UNCHANGED <<daemonVars, gateVars, scoreVars, selectVars, shouldVars>>

\* processSunset as runSunsetAutomation calls it: for the record that find()
\* returns for the address of a candidate, automation.ts:100-104
ProcessSunset ==
    /\ \E a \in LedgerAddresses, m \in LedgerMetrics, cast \in BOOLEAN :
         LET memory == loadMemory(ledger)
             i == findIndex(memory.deployments, a)
             metrics == analyzeEngagement(memory.deployments[i], m, now)
             r == processSunset(ledger, memory.deployments[i], metrics, cast, now)
         IN  /\ i # 0
             /\ ledger' = r.file
             /\ ledgerOp' = [LedgerOp("processSunset", a, ledger.state, NULL, Some(r.result))
                               EXCEPT !.fetched = Some(m)]
    /\ UNCHANGED <<daemonVars, gateVars, scoreVars, selectVars, shouldVars>>

\* the sunset pass of an engagement check
RunSunsetAutomation ==
    /\ \E M \in [1..Len(filterActive(loadMemory(ledger).deployments)) -> LedgerMetrics],
          cast \in BOOLEAN :
         LET r == runSunsetAutomation(ledger, M, cast, now)
         IN  /\ ledger' = r.file
             /\ ledgerOp' = [LedgerOp("runSunsetAutomation", 0, ledger.state, NULL, NULL)
                               EXCEPT !.candidates = [i \in 1..Len(r.candidates) |->
                                                         r.candidates[i].address],
                                      !.results = r.results]
    /\ UNCHANGED <<daemonVars, gateVars, scoreVars, selectVars, shouldVars>>

SunsetDeployment ==
    /\ \E a \in LedgerAddresses :
         /\ ledger' = sunsetDeployment(ledger, a)
         /\ ledgerOp' = LedgerOp("sunsetDeployment", a, ledger.state, NULL, NULL)
    /\ UNCHANGED <<daemonVars, gateVars, scoreVars, selectVars, shouldVars>>

\* saveMemory(loadMemory())
SaveLoaded ==
    /\ ledger' = saveMemory(loadMemory(ledger))
    /\ ledgerOp' = LedgerOp("saveMemory", 0, ledger.state, NULL, NULL)
    /\ UNCHANGED <<daemonVars, gateVars, scoreVars, selectVars, shouldVars>>

NextLedger ==
    \/ SaveDeployment
    \/ ProcessSunset
    \/ RunSunsetAutomation
    \/ SunsetDeployment
    \/ SaveLoaded

----------------------------------------------------------------------------
(* shouldSunset of the skill on its own, skills/moltchain/scripts/engagement.ts *)

\* Number.prototype.toFixed(1) of a value that is not negative, in tenths
toFixed1(x) == Round(RatMul(x, RatInt(10)))

\* a shouldSunset that wants the deployment older than minDaysActive
shouldSunset_strictAge(deployment, minTransfers, minDaysActive, t) ==
    LET minT == IF minTransfers = NULL THEN 10 ELSE minTransfers[1]
        minD == IF minDaysActive = NULL THEN 7 ELSE minDaysActive[1]
        daysSinceDeployment == Rat(t - deployment.timestamp, 1000 * 60 * 60 * 24)
        transfers == IF deployment.metrics = NULL THEN 0 ELSE deployment.metrics[1].transfers
    IN  IF ~RatLess(RatInt(minD), daysSinceDeployment)
        THEN [shouldSunset |-> FALSE,
              reason |-> <<"Only", toFixed1(daysSinceDeployment), "days old (min:", minD>>]
        ELSE IF transfers < minT
        THEN [shouldSunset |-> TRUE,
              reason |-> <<"Low activity: only", transfers, "transfers in",
                           toFixed1(daysSinceDeployment)>>]
        ELSE [shouldSunset |-> FALSE,
              reason |-> <<"Healthy engagement:", transfers, "transfers">>]

\* shouldSunset, engagement.ts:112-139: an argument left out is NULL and takes
\* its default; t is Date.now(); the days in a reason are in tenths
shouldSunset(deployment, minTransfers, minDaysActive, t) ==
    LET minT == IF minTransfers = NULL THEN 10 ELSE minTransfers[1]
        minD == IF minDaysActive = NULL THEN 7 ELSE minDaysActive[1]
        daysSinceDeployment == Rat(t - deployment.timestamp, 1000 * 60 * 60 * 24)
        transfers == IF deployment.metrics = NULL THEN 0 ELSE deployment.metrics[1].transfers
    IN  IF RatLess(daysSinceDeployment, RatInt(minD))
        THEN [shouldSunset |-> FALSE,
              reason |-> <<"Only", toFixed1(daysSinceDeployment), "days old (min:", minD>>]
        ELSE IF transfers < minT
        THEN [shouldSunset |-> TRUE,
              reason |-> <<"Low activity: only", transfers, "transfers in",
                           toFixed1(daysSinceDeployment)>>]
        ELSE [shouldSunset |-> FALSE,
              reason |-> <<"Healthy engagement:", transfers, "transfers">>]

\* Date.now() when shouldSunset is called
ShouldClock == 20 * DAY_MS

\* ages of the deployment shouldSunset is tried on
ShouldAges ==
    {0, 12 * HOUR_MS, DAY_MS - MINUTE_MS, DAY_MS, 3 * DAY_MS, 7 * DAY_MS - MINUTE_MS,
     7 * DAY_MS, 7 * DAY_MS + MINUTE_MS, 8 * DAY_MS, 20 * DAY_MS}

\* the metrics of the deployment: none, or a transfer count
ShouldMetrics == {NULL} \cup {Some([transfers |-> n]) : n \in {0, 2, 3, 9, 10, 11}}

ShouldInputs ==
    [deployment : {[timestamp |-> ShouldClock - age, metrics |-> m] :
                      age \in ShouldAges, m \in ShouldMetrics},
     minTransfers : {NULL, Some(0), Some(3)},
     minDaysActive : {NULL, Some(0), Some(1), Some(8)},
     now : {ShouldClock}]

InitShould ==
    /\ shouldIn \in ShouldInputs
    /\ shouldOut = NULL

ShouldIdle ==
    /\ shouldIn = NULL
    /\ shouldOut = NULL

\* one call of shouldSunset
CallShouldSunset ==
    /\ shouldOut = NULL
    /\ shouldOut' = Some(shouldSunset(shouldIn.deployment, shouldIn.minTransfers,
                                      shouldIn.minDaysActive, shouldIn.now))
    /\ UNCHANGED <<shouldIn, daemonVars, gateVars, scoreVars, selectVars, ledgerVars>>

NextShould == CallShouldSunset

----------------------------------------------------------------------------
(* Specifications *)

Init == InitDaemon /\ GateIdle /\ ScoreIdle /\ SelectIdle /\ LedgerIdle /\ ShouldIdle

\* the daemon loop
Spec == Init /\ [][Next]_vars

DaemonIdle ==
    /\ InitDaemon
    /\ file = MemoryFile("missing", EmptyMemory)

\* the process from its start to its end
ProcessInit == InitProcess /\ GateIdle /\ ScoreIdle /\ SelectIdle /\ LedgerIdle /\ ShouldIdle

SpecProcess == ProcessInit /\ [][NextProcess]_vars

\* the gate alone
GateInit == DaemonIdle /\ InitGate /\ ScoreIdle /\ SelectIdle /\ LedgerIdle /\ ShouldIdle

SpecGate == GateInit /\ [][NextGate]_vars

\* the scorer alone
ScoreInit == DaemonIdle /\ GateIdle /\ InitScore /\ SelectIdle /\ LedgerIdle /\ ShouldIdle

SpecScore == ScoreInit /\ [][NextScore]_vars

\* archetype selection alone
SelectInit == DaemonIdle /\ GateIdle /\ ScoreIdle /\ InitSelect /\ LedgerIdle /\ ShouldIdle

SpecSelect == SelectInit /\ [][NextSelect]_vars

\* the ledger alone
LedgerInit == DaemonIdle /\ GateIdle /\ ScoreIdle /\ SelectIdle /\ InitLedger /\ ShouldIdle

SpecLedger == LedgerInit /\ [][NextLedger]_vars

\* shouldSunset alone
ShouldInit ==
    DaemonIdle /\ GateIdle /\ ScoreIdle /\ SelectIdle /\ LedgerIdle /\ InitShould

SpecShould == ShouldInit /\ [][NextShould]_vars

----------------------------------------------------------------------------
(* Properties of the daemon loop *)

\* C1: any two successful deployments of a daemon run are at least 60 minutes
\* apart: a deploy call is never issued before 60 minutes have passed since the
\* latest successful deployment.
C1_DeploymentsAnHourApart ==
    (iter.deployCalled /\ iter.prevDeployedAt # NULL)
        => iter.deployCallAt[1] >= iter.prevDeployedAt[1] + 60 * MINUTE_MS

\* C2: whatever the archetype, once the deploy call of an iteration has
\* succeeded the head of the ledger is the record of that deployment.
C2_DeploymentRecorded ==
    iter.deployed # NULL
        => /\ loadMemory(file).deployments # <<>>
           /\ loadMemory(file).deployments[1].address = iter.deployed[1]

\* what an iteration whose gate refused may do: nothing
GateRefusedStep ==
    (pc = "runIteration" /\ ~iter'.gate[1].allowed)
        => /\ file' = file
           /\ ~iter'.fetched /\ ~iter'.preAnnounced /\ ~iter'.deployCalled
           /\ ~iter'.saved /\ ~iter'.announced

\* C5: a deploy call is issued only in an iteration whose gate check allowed it
\* and whose scored narrative has shouldDeploy true and strength >= 7; an
\* iteration whose gate check refused fetches nothing, announces nothing,
\* deploys nothing and leaves the ledger as it was.
C5_DeployOnlyWhenGated ==
    /\ [](iter.deployCalled
            => /\ iter.gate # NULL /\ iter.gate[1].allowed
               /\ iter.signal # NULL
               /\ iter.signal[1].shouldDeploy /\ iter.signal[1].strength >= 7)
    /\ [][GateRefusedStep]_vars

\* an iteration has deployed after the gate allowed it
C5_Witness ==
    /\ iter.deployCalled /\ iter.deployed # NULL
    /\ iter.gate[1].allowed /\ iter.signal[1].strength >= 7

----------------------------------------------------------------------------
(* Properties of the gate *)

GateDeployments == loadMemory(gateIn.file).deployments

\* how long ago the head record was deployed
GateHeadAge == gateIn.now - GateDeployments[1].timestamp

RateLimited(minutesAgo) ==
    <<"Rate limited: Last deployment was", minutesAgo, "minutes ago (wait 60 min)">>

\* C3 as stated: with sufficient balance the gate refuses whenever the head
\* record is not strictly older than 60 minutes, reporting the whole minutes
\* elapsed, and allows when the head record is older than 60 minutes or the
\* ledger is empty.
C3_AsStated ==
    (gateOut # NULL /\ gateIn.balance >= MIN_DEPLOY_BALANCE)
        => IF GateDeployments # <<>> /\ GateHeadAge <= 60 * MINUTE_MS
           THEN /\ ~gateOut[1].allowed
                /\ gateOut[1].reason = RateLimited(GateHeadAge \div MINUTE_MS)
           ELSE gateOut[1].allowed

\* C3 amended: with sufficient balance the gate refuses exactly when the head
\* record was deployed less than 60 minutes ago, reporting the whole minutes
\* elapsed (floor), and allows when the head record is at least 60 minutes old
\* or the ledger is empty.
C3_RateLimit ==
    (gateOut # NULL /\ gateIn.balance >= MIN_DEPLOY_BALANCE)
        => IF GateDeployments # <<>> /\ GateHeadAge < 60 * MINUTE_MS
           THEN /\ ~gateOut[1].allowed
                /\ gateOut[1].reason = RateLimited(GateHeadAge \div MINUTE_MS)
           ELSE gateOut[1].allowed

\* the gate allowed a ledger whose head record is exactly 60 minutes old
C3_Witness ==
    /\ gateOut # NULL /\ gateIn.balance >= MIN_DEPLOY_BALANCE
    /\ GateDeployments # <<>> /\ GateHeadAge = 60 * MINUTE_MS
    /\ gateOut[1].allowed

\* C4: the funds check comes first: below 0.005 the gate refuses with the
\* insufficient-balance reason whatever the ledger holds, and the rate-limit
\* reason is given only when the funds check passed.
C4_FundsFirst ==
    gateOut # NULL
        => /\ gateIn.balance < MIN_DEPLOY_BALANCE
                => /\ ~gateOut[1].allowed
                   /\ gateOut[1].reason =
                        <<"Insufficient wallet balance (need at least 0.005 ETH)">>
           /\ gateOut[1].reason[1] = "Rate limited: Last deployment was"
                => gateIn.balance >= MIN_DEPLOY_BALANCE

\* the gate refused for funds although the head record is 30 minutes old
C4_Witness ==
    /\ gateOut # NULL /\ gateIn.balance < MIN_DEPLOY_BALANCE
    /\ GateDeployments # <<>> /\ GateHeadAge = 30 * MINUTE_MS
    /\ gateOut[1].reason = <<"Insufficient wallet balance (need at least 0.005 ETH)">>

----------------------------------------------------------------------------
(* Properties of the engagement scorer *)

\* the record of the ledger with the given address
LedgerRecord(address) ==
    loadMemory(file).deployments[findIndex(loadMemory(file).deployments, address)]

\* C6: a record younger than 24 hours is never recommended for sunset, whatever
\* its counts, and so no record handed to the Sunset Processor by an engagement
\* check is younger than 24 hours.
C6_GracePeriod ==
    /\ \A i \in DOMAIN check.analysed :
         LET m == check.analysed[i]
         IN  m.checkedAt - LedgerRecord(m.address).timestamp < DAY_MS
                => m.recommendation # "sunset"
    /\ \A i \in DOMAIN check.results :
         LET r == check.results[i]
         IN  r.sunsetAt - LedgerRecord(r.address).timestamp >= DAY_MS

\* one engagement check kept a young record with a score below 20 and handed
\* an old one to the Sunset Processor
C6_Witness ==
    /\ check.fired
    /\ \E i \in DOMAIN check.analysed :
         LET m == check.analysed[i]
         IN  /\ m.checkedAt - LedgerRecord(m.address).timestamp < DAY_MS
             /\ m.engagementScore < 20
             /\ m.recommendation = "keep"
    /\ check.results # <<>>

\* the days since deployment of the record under test
ScoreDays == Rat(scoreIn.now - scoreIn.deployment.timestamp, DAY_MS)

\* count >= rate * max(days, 1)
AtExpectedRate(count, rate) ==
    ~RatLess(RatInt(count), RatMul(RatInt(rate), RatMax(ScoreDays, RatInt(1))))

\* C7: the engagement score is an integer from 0 to 100 for all counts and ages.
C7_ScoreRange ==
    scoreOut # NULL => scoreOut[1].engagementScore \in 0..100

\* a record deployed in the future with counts far above the expected rate
C7_Witness ==
    /\ scoreOut # NULL
    /\ scoreIn.deployment.timestamp > scoreIn.now
    /\ scoreIn.m.transferCount = 1000 /\ scoreIn.m.uniqueHolders = 1000
    /\ scoreIn.m.socialMentions = 1000
    /\ scoreOut[1].engagementScore = 100

\* C8: raising one count with the other two and the age fixed never lowers the score.
C8_Monotone ==
    scorePrev # NULL => scoreOut[1].engagementScore >= scorePrev[1]

\* a count was raised and the score rose
C8_Witness ==
    /\ scorePrev # NULL
    /\ scoreOut[1].engagementScore > scorePrev[1]

\* C9: with no activity a record at least a day old scores 0 (recommendation
\* sunset); with every count at or above its expected rate (10, 5 and 3 a day,
\* times max(days, 1)) the score is exactly 100, however large the counts.
C9_ZeroAndSaturation ==
    scoreOut # NULL
        => /\ (/\ scoreIn.m.transferCount = 0 /\ scoreIn.m.uniqueHolders = 0
               /\ scoreIn.m.socialMentions = 0
               /\ ~RatLess(ScoreDays, RatInt(1)))
                => /\ scoreOut[1].engagementScore = 0
                   /\ scoreOut[1].recommendation = "sunset"
           /\ (/\ AtExpectedRate(scoreIn.m.transferCount, 10)
               /\ AtExpectedRate(scoreIn.m.uniqueHolders, 5)
               /\ AtExpectedRate(scoreIn.m.socialMentions, 3))
                => scoreOut[1].engagementScore = 100

\* a record 36 hours old with counts just at the expected rate scores 100
C9_Witness ==
    /\ scoreOut # NULL
    /\ scoreIn.now - scoreIn.deployment.timestamp = 36 * HOUR_MS
    /\ scoreIn.m.transferCount = 15 /\ scoreIn.m.uniqueHolders = 10
    /\ scoreIn.m.socialMentions = 5
    /\ scoreOut[1].engagementScore = 100

\* C10: the recommendation depends on the score and the age only: promote iff
\* score >= 50; keep iff 20 <= score < 50, or score < 20 and less than a day
\* old; sunset iff score < 20 and at least a day old.
C10_Recommendation ==
    scoreOut # NULL
        => LET score == scoreOut[1].engagementScore
               young == RatLess(ScoreDays, RatInt(1))
               recommendation == scoreOut[1].recommendation
           IN  /\ recommendation = "promote" <=> score >= 50
               /\ recommendation = "keep"
                    <=> ((20 <= score /\ score < 50) \/ (score < 20 /\ young))
               /\ recommendation = "sunset" <=> (score < 20 /\ ~young)

\* a record one millisecond short of a day old is kept with a score below 20
C10_Witness ==
    /\ scoreOut # NULL
    /\ scoreIn.now - scoreIn.deployment.timestamp = DAY_MS - 1
    /\ scoreOut[1].engagementScore < 20
    /\ scoreOut[1].recommendation = "keep"

----------------------------------------------------------------------------
(* Properties of archetype selection *)

\* the archetypes whose keywords occur in the narrative under test
SelectFamilies == {selectIn.words[i].family : i \in DOMAIN selectIn.words}

\* C11: the archetype is fixed by the keywords in the narrative, in any case,
\* with priority vote > registry > erc1155 > erc20: a vote keyword gives vote
\* even beside registry or NFT keywords, else a registry keyword gives registry
\* even beside NFT keywords, else an NFT keyword gives erc1155, else erc20.
C11_ArchetypePriority ==
    selectOut # NULL
        => selectOut[1] =
              IF "vote" \in SelectFamilies THEN "vote"
              ELSE IF "registry" \in SelectFamilies THEN "registry"
              ELSE IF "erc1155" \in SelectFamilies THEN "erc1155"
              ELSE "erc20"

\* a narrative with a registry word before a vote word in capitals gave vote
C11_Witness ==
    /\ selectOut = Some("vote")
    /\ Len(selectIn.words) = 2
    /\ selectIn.words[1].family = "registry"
    /\ selectIn.words[2].text = <<"D", "E", "C", "I", "D", "E">>

----------------------------------------------------------------------------
(* Properties of the ledger and the Sunset Processor *)

\* the records of the ledger under test, as loadMemory returns them
LedgerDeployments == loadMemory(ledger).deployments

\* C12: after processSunset for a record whose address is in the ledger, the
\* reloaded ledger shows that record with status 'sunset' and the low-engagement
\* reason, whether the announcement succeeded or failed.
C12_SunsetPersisted ==
    ledgerOp.op = "processSunset"
        => LET i == findIndex(LedgerDeployments, ledgerOp.address)
           IN  /\ i # 0
               /\ LedgerDeployments[i].status = "sunset"
               /\ LedgerDeployments[i].reason = ledgerOp.result[1].reason
               /\ ledgerOp.result[1].reason[1] = "Low engagement:"

\* a sunset whose announcement failed is in the ledger
C12_Witness ==
    /\ ledgerOp.op = "processSunset"
    /\ ~ledgerOp.result[1].cast
    /\ LedgerDeployments[findIndex(LedgerDeployments, ledgerOp.address)].status = "sunset"

\* C13: the SunsetResult of processSunset has announced = true exactly when the
\* sunset announcement succeeded, and announced = false when it failed.
C13_AnnouncedIffCastSucceeded ==
    \A i \in DOMAIN check.results :
        check.results[i].announced <=> check.results[i].cast

\* the records before and after a step of the ledger under test, counted from
\* the oldest: record k of n records is deployments[n - k + 1]
OlderRecord(deployments, k) == deployments[Len(deployments) - k + 1]

\* C14: a record whose status is 'sunset' keeps that status under every later
\* operation on the ledger, so it is never 'active' again.
C14_SunsetIsFinal ==
    [][LET old == loadMemory(ledger).deployments
           new == loadMemory(ledger').deployments
       IN  /\ Len(new) >= Len(old)
           /\ \A k \in 1..Len(old) :
                OlderRecord(old, k).status = "sunset"
                    => OlderRecord(new, k).status = "sunset"]_vars

\* an active record was saved for an address whose earlier record is sunset
C14_Witness ==
    /\ ledgerOp.op = "saveDeployment"
    /\ Len(LedgerDeployments) >= 2
    /\ LedgerDeployments[1].status = "active"
    /\ \E i \in 2..Len(LedgerDeployments) :
         /\ LedgerDeployments[i].address = LedgerDeployments[1].address
         /\ LedgerDeployments[i].status = "sunset"

\* C15: no two records of the ledger share an address, also after saveDeployment
\* is called with an address that is already recorded.
C15_UniqueAddresses ==
    \A i, j \in DOMAIN LedgerDeployments :
        i # j => LedgerDeployments[i].address # LedgerDeployments[j].address

\* what identifies a record whatever its status, reason or sunset flag
RecordIdentity(d) == <<d.address, d.name, d.timestamp>>

\* C16: the ledger is append-only and newest-first: saveDeployment puts the new
\* record at the head and keeps the earlier records in order, and no operation
\* removes or reorders a record, so the record count never decreases.
C16_AppendOnly ==
    [][LET old == loadMemory(ledger).deployments
           new == loadMemory(ledger').deployments
       IN  /\ Len(new) >= Len(old)
           /\ \A k \in 1..Len(old) :
                RecordIdentity(OlderRecord(new, k)) = RecordIdentity(OlderRecord(old, k))
           /\ ledgerOp'.op = "saveDeployment"
                => /\ Len(new) = Len(old) + 1
                   /\ new[1] = ledgerOp'.record[1]
                   /\ Tail(new) = old
           /\ ledgerOp'.op # "saveDeployment" => Len(new) = Len(old)]_vars

\* a record was saved at the head of a ledger of two different records
C16_Witness ==
    /\ ledgerOp.op = "saveDeployment"
    /\ Len(LedgerDeployments) = 3
    /\ LedgerDeployments[1] = ledgerOp.record[1]
    /\ LedgerDeployments[2].address # LedgerDeployments[3].address

\* the file of an empty ledger
EmptyLedgerFile == MemoryFile("ok", EmptyMemory)

\* C17: loadMemory never fails: for a missing or corrupt file it returns the
\* empty ledger (version 1, no deployments), and canDeploy, getDeploymentStats,
\* analyzeAllDeployments and saveDeployment proceed as on an empty ledger.
C17_LoadNeverFails ==
    /\ ledger.state \in {"missing", "corrupt"}
         => /\ loadMemory(ledger) = [version |-> 1, deployments |-> <<>>]
            /\ \A b \in GateBalances :
                 canDeploy(b, ledger, now) = canDeploy(b, EmptyLedgerFile, now)
            /\ getDeploymentStats(ledger) = getDeploymentStats(EmptyLedgerFile)
            /\ analyzeAllDeployments(ledger, <<>>, now) = <<>>
    /\ (ledgerOp.op = "saveDeployment" /\ ledgerOp.beforeState \in {"missing", "corrupt"})
         => /\ ledger = saveDeployment(EmptyLedgerFile, ledgerOp.record[1])
            /\ LedgerDeployments = <<ledgerOp.record[1]>>

\* a record was saved over a file whose text did not parse
C17_Witness ==
    /\ ledgerOp.op = "saveDeployment"
    /\ ledgerOp.beforeState = "corrupt"
    /\ ledger.state = "ok"
    /\ Len(LedgerDeployments) = 1

\* C18: saving the ledger as loaded and loading it again gives the same version
\* and the same records with the same fields in the same order, and saving it
\* once more leaves the file as it is.
C18_SaveLoadIdempotent ==
    [][ledgerOp'.op = "saveMemory"
         => /\ loadMemory(ledger') = loadMemory(ledger)
            /\ ledgerOp.op = "saveMemory" => ledger' = ledger]_vars

\* a ledger holding a record without status, a sunset record and a record with
\* the sunset flag was saved as loaded
C18_Witness ==
    /\ ledgerOp.op = "saveMemory"
    /\ \E i \in DOMAIN LedgerDeployments : LedgerDeployments[i].status = UNDEFINED
    /\ \E i \in DOMAIN LedgerDeployments : LedgerDeployments[i].status = "sunset"
    /\ \E i \in DOMAIN LedgerDeployments : LedgerDeployments[i].sunset

----------------------------------------------------------------------------
(* Properties of the engagement check and of the loop's timers *)

\* C19: every record a successful deployment of this run appended is analysed
\* by each engagement check that fires, until it is sunset; and a record the
\* check recommends for sunset has status 'sunset' when the check completes.
C19_DeployedRecordsTracked ==
    (pc = "postPeriodicStatus" /\ check.fired)
        => /\ \A i \in DOMAIN loadMemory(file).deployments :
                LET d == loadMemory(file).deployments[i]
                IN  (d.timestamp >= StartTime /\ d.status # "sunset")
                        => \E j \in DOMAIN check.analysed :
                               check.analysed[j].address = d.address
           /\ \A j \in DOMAIN check.analysed :
                check.analysed[j].recommendation = "sunset"
                    => LedgerRecord(check.analysed[j].address).status = "sunset"

\* the latest time in a list of firing times
LastFired(times) == times[Len(times)]

\* two firings of one action are at least its interval apart
FiringsApart(times, interval) == Len(times) = 2 => times[2] - times[1] >= interval

\* what a step of the loop may do to the three timers
TimerStep ==
    /\ pc = "runIteration"
         => /\ firedAt'.scan # firedAt.scan
            /\ firedAt'.engagement = firedAt.engagement
            /\ firedAt'.status = firedAt.status
            /\ lastEngagementCheck' = lastEngagementCheck
            /\ lastStatusUpdate' = lastStatusUpdate
    /\ pc = "runEngagementCheck"
         => /\ firedAt'.scan = firedAt.scan
            /\ firedAt'.status = firedAt.status
            /\ lastStatusUpdate' = lastStatusUpdate
            /\ firedAt.engagement # <<>>
                 => (firedAt'.engagement # firedAt.engagement
                       <=> now - LastFired(firedAt.engagement) >= 30 * MINUTE_MS)
            /\ lastEngagementCheck' =
                 IF firedAt'.engagement # firedAt.engagement THEN now
                 ELSE lastEngagementCheck
    /\ pc = "postPeriodicStatus"
         => /\ firedAt'.scan = firedAt.scan
            /\ firedAt'.engagement = firedAt.engagement
            /\ lastEngagementCheck' = lastEngagementCheck
            /\ firedAt.status # <<>>
                 => (firedAt'.status # firedAt.status
                       <=> now - LastFired(firedAt.status) >= 60 * MINUTE_MS)
            /\ lastStatusUpdate' =
                 IF firedAt'.status # firedAt.status THEN now ELSE lastStatusUpdate

\* C20: each periodic action has its own last-run time and fires in a loop pass
\* exactly when its own interval (10, 30, 60 minutes) has passed since it last
\* fired; no action changes the last-run time of another, whether it fires, is
\* skipped or fails; so two scans are at least 10, two engagement checks at
\* least 30 and two status posts at least 60 minutes apart.
C20_IndependentTimers ==
    /\ [](/\ FiringsApart(firedAt.scan, 10 * MINUTE_MS)
          /\ FiringsApart(firedAt.engagement, 30 * MINUTE_MS)
          /\ FiringsApart(firedAt.status, 60 * MINUTE_MS))
    /\ [][TimerStep]_vars

\* the second status post has just failed, after two engagement checks
C20_Witness ==
    /\ pc = "sleep"
    /\ Len(firedAt.status) = 2
    /\ LastFired(firedAt.status) = now
    /\ statusPost = NULL
    /\ Len(firedAt.engagement) = 2
    /\ LastFired(firedAt.engagement) < now

------------------------------------------------------------\* C22: when the deploy call of runIteration throws, that iteration appends no
\* record to the ledger and announces no deployment, the error is caught in
\* runIteration (the daemon keeps running), and the same loop pass goes on to
\* the engagement check and the status post
C22_DeployFailureContained ==
    [][/\ (pc = "runIteration" /\ iter'.caught)
            => /\ iter'.deployCalled
               /\ file' = file
               /\ ~iter'.saved
               /\ ~iter'.announced
               /\ iter'.deployed = NULL
               /\ nextAddress' = nextAddress
               /\ isRunning' = isRunning
               /\ exit' = NULL
               /\ pc' = "runEngagementCheck"
       /\ (pc = "runEngagementCheck" /\ iter.caught)
            => /\ pc' = "postPeriodicStatus"
               /\ iterationCount' = iterationCount
               /\ check'.fired = (now - lastEngagementCheck >= ENGAGEMENT_CHECK_INTERVAL_MS)
       /\ (pc = "postPeriodicStatus" /\ iter.caught)
            => /\ pc' = "sleep"
               /\ iterationCount' = iterationCount
               /\ (firedAt'.status # firedAt.status)
                    = (now - lastStatusUpdate >= STATUS_UPDATE_INTERVAL_MS)]_vars

\* a pass whose deploy call threw has run its engagement check and reached its end
C22_Witness ==
    /\ pc = "sleep"
    /\ iter.caught
    /\ iter.deployCalled
    /\ check.fired

\* C23: in every status post the counts by status partition the ledger: the
\* reported active count plus the reported sunset count is the reported total,
\* and the records the Sunset Processor has retired are counted as sunset and
\* not as active
C23_StatusCountsPartition ==
    statusPost # NULL
        => LET retired == {i \in 1..Len(loadMemory(file).deployments) :
                              loadMemory(file).deployments[i].status = "sunset"}
           IN  /\ statusPost[1].active + statusPost[1].sunset = statusPost[1].total
               /\ (statusPost[1].total = Len(loadMemory(file).deployments))
                    => /\ statusPost[1].sunset = Cardinality(retired)
                       /\ statusPost[1].active
                            = Len(loadMemory(file).deployments) - Cardinality(retired)

\* the numbers a sunset reason embeds, in the order of the template of
\* sunsetReason
ReasonNumbers(reason) == {reason[2], reason[4], reason[6]}

\* C24: the reason processSunset returns and writes to the ledger record embeds
\* the three raw metrics (transfer count, unique holder count, social-mention
\* count) together with the engagement score
C24_ReasonEmbedsMetrics ==
    (ledgerOp # NULL /\ ledgerOp.op = "processSunset")
        => LET reason == ledgerOp.result[1].reason
               m == ledgerOp.fetched[1]
           IN  /\ LedgerDeployments[findIndex(LedgerDeployments, ledgerOp.address)].reason
                    = reason
               /\ reason[2] = m.transferCount
               /\ reason[4] = m.uniqueHolders
               /\ reason[6] \in 0..100
               /\ m.socialMentions \in ReasonNumbers(reason)

\* the characters of the contract names of the model
NameText(name) ==
    CASE name = "Alpha" -> <<"A", "l", "p", "h", "a">>
      [] name = "Alpha Token" -> <<"A", "l", "p", "h", "a", " ", "T", "o", "k", "e", "n">>
      [] name = "Beta" -> <<"B", "e", "t", "a">>
      [] name = "Moltchain Contract" ->
            <<"M", "o", "l", "t", "c", "h", "a", "i", "n", " ",
              "C", "o", "n", "t", "r", "a", "c", "t">>

\* the names of the records of the ledger deployed in the 24 hours before t
RecentNames(deployments, t) ==
    LET recent == SelectSeq(deployments, LAMBDA d : d.timestamp > t - DAY_MS)
    IN  [i \in 1..Len(recent) |-> NameText(recent[i].name)]

\* C25: the gate rejects duplicate narratives: the daemon never deploys a
\* contract whose name matches, by the containment test of isDuplicate, the name
\* of a record the ledger holds from the last 24 hours
C25_NoDuplicateDeploy ==
    [][(pc = "runIteration" /\ iter'.saved)
        => ~isDuplicate(NameText(loadMemory(file').deployments[1].name),
                        RecentNames(loadMemory(file).deployments, now))]_vars

\* C27: shouldSunset returns shouldSunset = TRUE exactly when the deployment is
\* at least minDaysActive days old (7 when left out) and its transfer count (0
\* when it has no metrics) is below minTransfers (10 when left out); for a
\* deployment younger than minDaysActive it returns FALSE whatever the count
C27_ShouldSunset ==
    shouldOut # NULL
        => LET minT == IF shouldIn.minTransfers = NULL THEN 10
                       ELSE shouldIn.minTransfers[1]
               minD == IF shouldIn.minDaysActive = NULL THEN 7
                       ELSE shouldIn.minDaysActive[1]
               oldEnough == shouldIn.now - shouldIn.deployment.timestamp >= minD * DAY_MS
               count == IF shouldIn.deployment.metrics = NULL THEN 0
                        ELSE shouldIn.deployment.metrics[1].transfers
           IN  /\ shouldOut[1].shouldSunset = (oldEnough /\ count < minT)
               /\ ~oldEnough => ~shouldOut[1].shouldSunset

\* a deployment exactly seven days old without metrics, tried with the defaults
C27_Witness ==
    /\ shouldOut # NULL
    /\ shouldIn.minTransfers = NULL
    /\ shouldIn.minDaysActive = NULL
    /\ shouldIn.deployment.metrics = NULL
    /\ shouldIn.now - shouldIn.deployment.timestamp = 7 * DAY_MS
    /\ shouldOut[1].shouldSunset

\* C28: a failed action is not issued again within the same loop pass, and the
\* next loop pass attempts it again: after the engagement check of a pass has
\* failed the check of the next pass fires, and after the deployment attempt of
\* a pass has failed the next pass runs the gate and, when the gate allows,
\* scans for a signal again
C28_RetryNextPass ==
    [][/\ (pc = "runEngagementCheck" /\ check.failed) => check'.fired
       /\ (pc = "runIteration" /\ iter.caught)
            => /\ iter'.gate # NULL
               /\ iter'.gate[1].allowed => iter'.fetched
       /\ (pc # "runIteration") => (iter' = iter /\ iterationCount' = iterationCount)
       /\ (pc # "runEngagementCheck") => check' = check]_vars

\* C29: processSunset changes only the status and the reason of the first
\* record whose address is the given one: every other record, the order of the
\* records and their number stay; and after runSunsetAutomation has processed
\* its candidates every candidate found in the ledger has status 'sunset' and
\* the records of no candidate are as they were
C29_SunsetFrame ==
    [][LET old == loadMemory(ledger).deployments
           new == loadMemory(ledger').deployments
       IN  /\ ledgerOp'.op = "processSunset"
                => LET i == findIndex(old, ledgerOp'.address)
                   IN  /\ Len(new) = Len(old)
                       /\ i \in 1..Len(old)
                       /\ \A k \in 1..Len(old) : k # i => new[k] = old[k]
                       /\ new[i] = [old[i] EXCEPT
                                       !.status = "sunset",
                                       !.reason = ledgerOp'.result[1].reason]
           /\ ledgerOp'.op = "runSunsetAutomation"
                => /\ Len(new) = Len(old)
                   /\ \A j \in DOMAIN ledgerOp'.candidates :
                        LET i == findIndex(new, ledgerOp'.candidates[j])
                        IN  i # 0 => new[i].status = "sunset"
                   /\ \A k \in 1..Len(old) :
                        (\A j \in DOMAIN ledgerOp'.candidates :
                            findIndex(old, ledgerOp'.candidates[j]) # k)
                            => new[k] = old[k]]_vars

\* one run of runSunsetAutomation retired two candidates with different
\* addresses, and the ledger holds a third record
C29_Witness ==
    /\ ledgerOp # NULL
    /\ ledgerOp.op = "runSunsetAutomation"
    /\ Len(ledgerOp.candidates) = 2
    /\ ledgerOp.candidates[1] # ledgerOp.candidates[2]
    /\ Len(ledgerOp.results) = 2
    /\ Len(LedgerDeployments) = 3
    /\ \A j \in 1..2 :
         LedgerDeployments[findIndex(LedgerDeployments, ledgerOp.candidates[j])].status
            = "sunset"

\* the addresses of a list of metrics or of results
Addresses(list) == {list[i].address : i \in DOMAIN list}

\* C30: over the engagement checks of a run each ledger record is processed by
\* the Sunset Processor, and its sunset announced, at most once: a record
\* already marked sunset is not analysed, is no sunset candidate and is not
\* announced by a later check, no check processes a record twice, and every
\* record a check has processed is marked sunset when the check ends
C30_SunsetOnce ==
    [][pc = "runEngagementCheck"
        => LET old == loadMemory(file).deployments
               new == loadMemory(file').deployments
           IN  /\ \A k \in DOMAIN old :
                    old[k].status = "sunset"
                        => old[k].address \notin
                               (Addresses(check'.analysed) \cup Addresses(check'.candidates)
                                    \cup Addresses(check'.results))
               /\ Cardinality(Addresses(check'.results)) = Len(check'.results)
               /\ \A j \in DOMAIN check'.results :
                    /\ findIndex(new, check'.results[j].address) # 0
                    /\ new[findIndex(new, check'.results[j].address)].status = "sunset"]_vars

\* the second engagement check of a run has analysed the records still active
\* and retired none, while the ledger holds the record the first check retired
C30_Witness ==
    /\ check.fired
    /\ Len(firedAt.engagement) = 2
    /\ check.analysed # <<>>
    /\ check.results = <<>>
    /\ ~check.failed
    /\ \E k \in DOMAIN loadMemory(file).deployments :
         /\ loadMemory(file).deployments[k].status = "sunset"
         /\ loadMemory(file).deployments[k].address \notin Addresses(check.analysed)

----------------
(* Properties of the process around the daemon *)

\* C21: a termination signal that arrives while a loop pass is in progress lets
\* the pass finish (runIteration, runEngagementCheck and postPeriodicStatus,
\* with any external call and ledger write in flight) before the loop stops:
\* a process ended by a signal was between two passes (asleep, or about to
\* start one), or had not entered the loop yet
C21_PassCompletes ==
    (exit # NULL /\ exit[1].by = "signal")
        => exit[1].at \in {"startDaemon", "runIteration", "sleep"}

\* C26: when a required secret is missing at the start of the process, startup
\* is fatal: once the modules are loaded the process has ended with a non-zero
\* exit status, startDaemon has queried no balance and posted nothing, nothing
\* was deployed and the main loop was never entered
C26_MissingSecretIsFatal ==
    (secrets # RequiredSecrets /\ pc # "load")
        => /\ pc = "exited"
           /\ exit # NULL
           /\ exit[1].code # 0
           /\ startup = NoStartupCalls
           /\ ~isRunning
           /\ iterationCount = 0
           /\ nextAddress = 3
           /\ ~iter.deployCalled
           /\ statusPost = NULL

\* the process was started without PRIVATE_KEY and has ended
C26_Witness ==
    /\ "PRIVATE_KEY" \notin secrets
    /\ "GROQ_API_KEY" \in secrets
    /\ pc = "exited"
    /\ exit # NULL
    /\ exit[1].code = 1

====
